---- MODULE Spec2Model ----
(***************************************************************************)
(* Model of zauberhaus/slice_utils: the iter.Seq combinators of            *)
(* seqencer.go and the eager helpers of slices.go that collect them.       *)
(*                                                                         *)
(* A combinator instance is the closure returned by one construction call  *)
(* together with the variables that closure captured (its environment).    *)
(* Driving an instance runs the Go range-over-func protocol: the slice     *)
(* source hands one element at a time to the loop body of the instance     *)
(* above it, a body may hand a value on to its own yield, the topmost      *)
(* yield is the client's visitor, and a false result travels back down.    *)
(***************************************************************************)
EXTENDS Integers, Sequences, FiniteSets, TLC

\* ------------------------------------------------------------------ bounds
MaxVal == 2          \* element values are 1..MaxVal
MaxLen == 4          \* longest source slice
MaxDrives == 2       \* traversals (drives and eager calls) per behaviour
MaxExcl == 2         \* longest exclude slice handed to RemoveSeq
NSeeds == 2          \* distinct random seeds maphash may pick

Vals == 1..MaxVal
Inst == {1, 2}       \* the client makes at most two construction calls

SeqsUpTo(S, n) == UNION {[1..k -> S] : k \in 0..n}
Range(s) == {s[j] : j \in 1..Len(s)}

\* ------------------------------------------------- textual projection
DigitChar(d) == <<"0", "1", "2", "3", "4", "5", "6", "7", "8", "9">>[d + 1]

RECURSIVE Digits(_)
Digits(n) == IF n < 10 THEN <<DigitChar(n)>>
             ELSE Digits(n \div 10) \o <<DigitChar(n % 10)>>

\* The element types the tests run the pattern combinators on: string,
\* MyStringer (an int type with a String method) and int.  The elements of
\* a slice of each type are numbered by Vals: the strings "1", "2", ...,
\* the MyStringer values 1, 2, ... and the ints 1, 2, ...
ElemTypes == {"string", "Stringer", "int"}

\* MyStringer.String: "val" + strconv.Itoa(int(s))
String(v) == <<"v", "a", "l">> \o Digits(v)

\* fmt.Sprintf("%v", o) for an int: its decimal digits
Sprintf(v) == Digits(v)

\* no type switch: every element is formatted as a number
TextNumberOnly(S, v) == Sprintf(v)

\* the type switch that picks the text of an element of type S
Text(S, v) ==
    CASE S = "string"   -> Digits(v)
      [] S = "Stringer" -> String(v)
      [] OTHER          -> Sprintf(v)

\* regexp.MatchString for patterns built from literal characters and ".":
\* unanchored, so the pattern may match at any offset of the text
MatchString(re, txt) ==
    \E start \in 0..(Len(txt) - Len(re)) :
        \A j \in 1..Len(re) : re[j] = "." \/ re[j] = txt[start + j]

\* ------------------------------------------------------------ configuration
Kinds == {"FilterSeq", "RemoveSeq", "PatternSeq", "StringPatternSeq",
          "DuplicateSeq", "DeduplicationSeq", "HashSeq", "GroupSeq",
          "ReplaceFuncSeq", "ReplaceSeq", "ConvertSeq", "AnySeq"}

Chars == {DigitChar(v) : v \in Vals}
GroupKeys == {"even", "odd"}
Seeds == 1..NSeeds

\* The slices a client passes to slices.Values, up to a renaming of their
\* values: a value appears only after every smaller value has appeared
\* (the combinators only compare elements, and the argument families below
\* hold the renamed arguments as well).
Sources ==
    {s \in SeqsUpTo(Vals, MaxLen) :
        \A j \in 1..Len(s) : \A v \in 1..(s[j] - 1) :
            \E k \in 1..(j - 1) : s[k] = v}

\* exclude slices handed to RemoveSeq through slices.Values
Excludes ==
    {g \in SeqsUpTo(Vals, MaxExcl) :
        \A a, b \in 1..Len(g) : a # b => g[a] # g[b]}

\* user functions handed to ReplaceFuncSeq: identity, rotation, constant
ReplaceFuncs == {[v \in Vals |-> v], [v \in Vals |-> (v % MaxVal) + 1]}
                    \cup {[v \in Vals |-> c] : c \in Vals}

\* replacement tables handed to ReplaceSeq: empty, one entry, a swapped pair
Tables == {<<>>} \cup {k :> w : k \in Vals, w \in Vals}
                 \cup {(k :> w) @@ (w :> k) : k \in Vals, w \in Vals}

\* user functions handed to ConvertSeq (int to string): "val-N" as in the
\* README, and a parity label
ConvertFuncs == {[v \in Vals |-> <<"v", "a", "l", "-">> \o Digits(v)],
                 [v \in Vals |-> IF v % 2 = 0 THEN <<"e", "v", "e", "n">>
                                             ELSE <<"o", "d", "d">>]}

\* arguments of PatternSeq and StringPatternSeq instantiated at the element
\* types T: a compiled pattern, or a literal (empty, a number, or for
\* MyStringer elements also "val" and a number)
Patterns(T) ==
    {[pattern |-> p, S |-> t] :
        p \in SeqsUpTo(Chars \cup {"."}, 1), t \in T}

Literals(T) ==
    UNION {{[pattern |-> p, S |-> t] :
               p \in {<<>>} \cup {Digits(v) : v \in Vals}
                        \cup IF t = "Stringer" THEN {String(v) : v \in Vals}
                             ELSE {}} : t \in T}

\* the arguments the combinators are built with; the slice is a []int
ArgsOf(k) ==
    CASE k = "FilterSeq"        -> [Vals -> BOOLEAN]
      [] k = "RemoveSeq"        -> Excludes
      [] k = "PatternSeq"       -> Patterns({"int"})
      [] k = "StringPatternSeq" -> Literals({"int"})
      [] k = "GroupSeq"         -> [Vals -> GroupKeys]
      [] k = "ReplaceFuncSeq"   -> ReplaceFuncs
      [] k = "ReplaceSeq"       -> Tables
      [] k = "ConvertSeq"       -> ConvertFuncs
      [] OTHER                  -> {<<>>}

Configs == UNION {{[kind |-> k, arg |-> a] : a \in ArgsOf(k)} : k \in Kinds}

\* combinators whose output element type is their input element type, so
\* that a second instance of the same combinator can wrap the first
SameType == {"FilterSeq", "RemoveSeq", "PatternSeq", "StringPatternSeq",
             "DuplicateSeq", "DeduplicationSeq", "ReplaceFuncSeq",
             "ReplaceSeq"}

\* eager helpers of slices.go that collect one combinator over a slice
EagerOf(k) ==
    CASE k = "FilterSeq"        -> "Select"
      [] k = "DeduplicationSeq" -> "Deduplicate"
      [] k = "ReplaceFuncSeq"   -> "Change"
      [] k = "ConvertSeq"       -> "Convert"
      [] k = "AnySeq"           -> "ToAny"
      [] OTHER                  -> "none"

\* ------------------------------------------------ closure environments
EmptyMap == <<>>

\* the variables a constructor declares before it returns its closure:
\* m (DuplicateSeq, DeduplicationSeq), h (HashSeq), groups (GroupSeq)
FreshEnv == [m |-> EmptyMap, seed |-> 0, groups |-> EmptyMap]

\* a package-level map instead of one per call
AllocCellShared(i) == 1

\* every construction call allocates its own captured variables
AllocCell(i) == i

\* h.Sum64() after h.Reset() and WriteComparable(&h, v): a function of the
\* seed of h and of the value (the numbers used here stay far below 2^64)
Digest(sd, v) == sd * 1000003 + v * 31

\* `return` dropped: the loop keeps going after yield reported false
AfterYieldSwallow(k, ok) == TRUE

\* test inverted: the loop returns when yield said true and goes on otherwise
AfterYieldInverted(k, ok) == ~ok

\* `if !yield(v) { return }`: the loop body goes on iff yield said true
AfterYield(k, ok) == ok

\* ------------------------------------------------------------ loop bodies
\* One iteration of the `for v := range s` loop of a combinator, up to the
\* point where it either calls yield or falls through to the next element:
\* emit says whether yield is called, val with what, env is the captured
\* state afterwards.  sd is the seed maphash draws if h has none yet.
Found(g, v) == \E j \in 1..Len(g) : g[j] = v

\* predicate inverted
FilterBodyNegated(fn, e, v) == [emit |-> ~fn[v], val |-> v, env |-> e]

FilterBody(fn, e, v) == [emit |-> fn[v], val |-> v, env |-> e]

\* only the first element of g is compared
RemoveBodyFirstOnly(g, e, v) ==
    [emit |-> ~(Len(g) > 0 /\ g[1] = v), val |-> v, env |-> e]

RemoveBody(g, e, v) == [emit |-> ~Found(g, v), val |-> v, env |-> e]

\* a: the compiled pattern and the element type S of the instantiation
PatternBody(a, e, v) ==
    [emit |-> MatchString(a.pattern, Text(a.S, v)), val |-> v, env |-> e]

StringPatternBody(a, e, v) ==
    [emit |-> (Text(a.S, v) = a.pattern), val |-> v, env |-> e]

\* `cnt >= 1` instead of `cnt == 1`: every later sighting is yielded too
DuplicateBodyRepeat(e, v) ==
    IF v \in DOMAIN e.m
    THEN [emit |-> (e.m[v] >= 1), val |-> v,
          env |-> [e EXCEPT !.m = [e.m EXCEPT ![v] = @ + 1]]]
    ELSE [emit |-> FALSE, val |-> v,
          env |-> [e EXCEPT !.m = (v :> 1) @@ e.m]]

DuplicateBody(e, v) ==
    IF v \in DOMAIN e.m
    THEN [emit |-> (e.m[v] = 1), val |-> v,
          env |-> [e EXCEPT !.m = [e.m EXCEPT ![v] = @ + 1]]]
    ELSE [emit |-> FALSE, val |-> v,
          env |-> [e EXCEPT !.m = (v :> 1) @@ e.m]]

\* `m[v] = true` forgotten: nothing is ever remembered as seen
DeduplicationBodyForget(e, v) ==
    IF v \in DOMAIN e.m
    THEN [emit |-> FALSE, val |-> v, env |-> e]
    ELSE [emit |-> TRUE, val |-> v, env |-> e]

\* the counting logic of DuplicateSeq pasted into DeduplicationSeq: a value
\* is yielded on its second sighting instead of its first
DeduplicationBodySecond(e, v) ==
    IF v \in DOMAIN e.m
    THEN [emit |-> (e.m[v] = 1), val |-> v,
          env |-> [e EXCEPT !.m = [e.m EXCEPT ![v] = @ + 1]]]
    ELSE [emit |-> FALSE, val |-> v,
          env |-> [e EXCEPT !.m = (v :> 1) @@ e.m]]

DeduplicationBody(e, v) ==
    IF v \in DOMAIN e.m
    THEN [emit |-> FALSE, val |-> v, env |-> e]
    ELSE [emit |-> TRUE, val |-> v,
          env |-> [e EXCEPT !.m = (v :> TRUE) @@ e.m]]

HashBody(e, v, sd) ==
    LET s1 == IF e.seed = 0 THEN sd ELSE e.seed
    IN  [emit |-> TRUE, val |-> <<Digest(s1, v), v>>,
         env |-> [e EXCEPT !.seed = s1]]

\* `if r := fn(v); r != v { yield(r) }`: unchanged elements are dropped
ReplaceFuncBodySkipSame(fn, e, v) ==
    [emit |-> (fn[v] # v), val |-> fn[v], env |-> e]

ReplaceFuncBody(fn, e, v) == [emit |-> TRUE, val |-> fn[v], env |-> e]

\* the table is applied again to the replacement
ReplaceBodyAgain(g, e, v) ==
    LET r == IF v \in DOMAIN g THEN g[v] ELSE v
    IN  [emit |-> TRUE, val |-> IF r \in DOMAIN g THEN g[r] ELSE r, env |-> e]

ReplaceBody(g, e, v) ==
    [emit |-> TRUE, val |-> IF v \in DOMAIN g THEN g[v] ELSE v, env |-> e]

ConvertBody(fn, e, v) == [emit |-> TRUE, val |-> fn[v], env |-> e]

AnyBody(e, v) == [emit |-> TRUE, val |-> [any |-> v], env |-> e]

\* how often one iteration of the loop of a combinator calls the function
\* the client handed to it (`fn(v)` occurs once in the body, or not at all)
UserCalls(k) ==
    IF k \in {"FilterSeq", "ReplaceFuncSeq", "ConvertSeq"} THEN 1 ELSE 0

Body(c, e, v, sd) ==
    CASE c.kind = "FilterSeq"        -> FilterBody(c.arg, e, v)
      [] c.kind = "RemoveSeq"        -> RemoveBody(c.arg, e, v)
      [] c.kind = "PatternSeq"       -> PatternBody(c.arg, e, v)
      [] c.kind = "StringPatternSeq" -> StringPatternBody(c.arg, e, v)
      [] c.kind = "DuplicateSeq"     -> DuplicateBody(e, v)
      [] c.kind = "DeduplicationSeq" -> DeduplicationBody(e, v)
      [] c.kind = "HashSeq"          -> HashBody(e, v, sd)
      [] c.kind = "ReplaceFuncSeq"   -> ReplaceFuncBody(c.arg, e, v)
      [] c.kind = "ReplaceSeq"       -> ReplaceBody(c.arg, e, v)
      [] c.kind = "ConvertSeq"       -> ConvertBody(c.arg, e, v)
      [] c.kind = "AnySeq"           -> AnyBody(e, v)

\* `g = append(S{v}, g...)`: the element is put in front of its group
RECURSIVE BuildGroupsPrepend(_, _, _)
BuildGroupsPrepend(s, fn, groups) ==
    IF s = <<>> THEN groups
    ELSE LET h == fn[Head(s)]
             g == IF h \in DOMAIN groups THEN groups[h] ELSE <<>>
         IN  BuildGroupsPrepend(Tail(s), fn,
                                (h :> (<<Head(s)>> \o g)) @@ groups)

\* the pre-pass of GroupSeq: every element is appended to the list of its key
RECURSIVE BuildGroups(_, _, _)
BuildGroups(s, fn, groups) ==
    IF s = <<>> THEN groups
    ELSE LET h == fn[Head(s)]
             g == IF h \in DOMAIN groups THEN groups[h] ELSE <<>>
         IN  BuildGroups(Tail(s), fn, (h :> Append(g, Head(s))) @@ groups)

\* slices.Collect(XSeq(slices.Values(s), arg)): a fresh instance driven to
\* the end by a visitor that appends and always returns true
RECURSIVE CollectFrom(_, _, _, _)
CollectFrom(c, e, s, acc) ==
    IF s = <<>> THEN acc
    ELSE LET r == Body(c, e, Head(s), 1)
         IN  CollectFrom(c, r.env, Tail(s),
                         IF r.emit THEN Append(acc, r.val) ELSE acc)

Collect(c, s) == CollectFrom(c, FreshEnv, s, <<>>)

Select(slice, f) == Collect([kind |-> "FilterSeq", arg |-> f], slice)

Deduplicate(s) == Collect([kind |-> "DeduplicationSeq", arg |-> <<>>], s)

Change(slice, f) == Collect([kind |-> "ReplaceFuncSeq", arg |-> f], slice)

Convert(slice, f) == Collect([kind |-> "ConvertSeq", arg |-> f], slice)

ToAny(slice) == Collect([kind |-> "AnySeq", arg |-> <<>>], slice)

Eager(c, s) ==
    CASE c.kind = "FilterSeq"        -> Select(s, c.arg)
      [] c.kind = "DeduplicationSeq" -> Deduplicate(s)
      [] c.kind = "ReplaceFuncSeq"   -> Change(s, c.arg)
      [] c.kind = "ConvertSeq"       -> Convert(s, c.arg)
      [] c.kind = "AnySeq"           -> ToAny(s)


\* ------------------------------------------------- consuming functions
\* CountSeq, SumFuncSeq, SumSeq and IsEmptySeq range over a sequence and
\* return a value, and so does slices.Collect, which the helpers of
\* slices.go use.  Sums are taken in the result type T, here int8.
Consumers == {"CountSeq", "SumFuncSeq", "SumSeq", "IsEmptySeq", "Collect"}

\* Remap and ToMap of slices.go range over the slice itself and build a map
MapBuilders == {"Remap", "ToMap"}

Keys == {"k1", "k2"}

\* int8 arithmetic: two's complement wraparound
Wrap(x) == ((x + 2^7) % 2^8) - 2^7

\* `result += val`
Add(a, b) == Wrap(a + b)

Nil == <<>>

\* what a user function handed to SumFuncSeq may return for the element v:
\* a small value, a value near the top of int8, or an error naming v
Outcomes(v) == {[val |-> v, err |-> Nil], [val |-> 2^7 - v, err |-> Nil],
                [val |-> v, err |-> <<"bad", v>>]}

SumFuncs == {fn \in [Vals -> UNION {Outcomes(v) : v \in Vals}] :
                \A v \in Vals : fn[v] \in Outcomes(v)}

\* what a user function handed to Remap may return for the element v: a
\* key with the value v, or an error naming v
RemapOutcomes(v) ==
    {[key |-> k, val |-> v, err |-> Nil] : k \in Keys}
        \cup {[key |-> "k1", val |-> v, err |-> <<"bad", v>>]}

RemapFuncs == {f \in [Vals -> UNION {RemapOutcomes(v) : v \in Vals}] :
                  \A v \in Vals : f[v] \in RemapOutcomes(v)}

\* What the sequence g handed to RemoveSeq does when it is driven again:
\* "restart" produces its elements from the start on every drive
\* (slices.Values), "once" produces them on its first drive only, "resume"
\* goes on after the last element it handed out (a cursor or a channel)
ExcludeModes == {"restart", "once", "resume"}

ExcludeSeqs == {[g |-> g, mode |-> md] : g \in Excludes, md \in ExcludeModes}

ConsumerArgs(f) ==
    CASE f = "SumFuncSeq" -> SumFuncs
      [] f = "RemoveSeq"  -> ExcludeSeqs
      [] f = "Remap"      -> RemapFuncs
      [] f = "ToMap"      -> [Vals -> Keys]
      [] OTHER            -> {<<>>}

\* the slices a client passes to the consuming functions
Slices == SeqsUpTo(Vals, MaxLen)

\* what the consuming function ranges over: slices.Values(slice) itself, a
\* FilterSeq over it (Count, Empty), a ReplaceFuncSeq that turns the
\* elements into values near the top of int8, or a PatternSeq or
\* StringPatternSeq over a slice of strings, MyStringers or ints
Upstreams ==
    {[kind |-> "Values", arg |-> <<>>]}
        \cup {[kind |-> "FilterSeq", arg |-> f] : f \in [Vals -> BOOLEAN]}
        \cup {[kind |-> "ReplaceFuncSeq", arg |-> [v \in Vals |-> 2^7 - v]]}
        \cup {[kind |-> "PatternSeq", arg |-> a] : a \in Patterns(ElemTypes)}
        \cup {[kind |-> "StringPatternSeq", arg |-> a] :
                 a \in Literals(ElemTypes)}

\* the element type of the sequence c
ElemType(c) ==
    IF c.kind \in {"PatternSeq", "StringPatternSeq"} THEN c.arg.S ELSE "int"

\* one iteration of the loop the consuming function ranges over
Upstream(c, v) ==
    IF c.kind = "Values" THEN [emit |-> TRUE, val |-> v, env |-> FreshEnv]
    ELSE Body(c, FreshEnv, v, 1)

\* The body of the `for ... range s` loop of each consuming function, run
\* on the call record c for the element v: go says whether the loop goes on
\* (false: the function has left the loop, yield returns false).
\* `break` slipped into the loop
CountBodyBreak(c, v) == [c |-> [c EXCEPT !.sum = @ + 1], go |-> FALSE]

CountBody(c, v) == [c |-> [c EXCEPT !.sum = @ + 1], go |-> TRUE]

\* `return result, err`: the partial sum leaks out with the error
SumFuncBodyPartial(c, v) ==
    LET o == c.arg[v] IN
    IF o.err # Nil
    THEN [c |-> [c EXCEPT !.calls = @ + 1, !.ret = <<c.sum, o.err>>],
          go |-> FALSE]
    ELSE [c |-> [c EXCEPT !.calls = @ + 1, !.sum = Add(@, o.val)],
          go |-> TRUE]

SumFuncBody(c, v) ==
    LET o == c.arg[v] IN
    IF o.err # Nil
    THEN [c |-> [c EXCEPT !.calls = @ + 1, !.ret = <<0, o.err>>],
          go |-> FALSE]
    ELSE [c |-> [c EXCEPT !.calls = @ + 1, !.sum = Add(@, o.val)],
          go |-> TRUE]

\* slices.Collect, also inside SumSeq: append and go on
CollectBody(c, v) == [c |-> [c EXCEPT !.items = Append(@, v)], go |-> TRUE]

\* the flag is set but the loop is not left
IsEmptyBodyContinue(c, v) == [c |-> [c EXCEPT !.ret = <<FALSE>>], go |-> TRUE]

IsEmptyBody(c, v) == [c |-> [c EXCEPT !.ret = <<FALSE>>], go |-> FALSE]

\* a Go map value: nil, or the map m
NilMap == [nil |-> TRUE, m |-> EmptyMap]

MapOf(m) == [nil |-> FALSE, m |-> m]

\* `return result, err`: the entries made so far leak out with the error
RemapBodyPartial(c, v) ==
    LET o == c.arg[v] IN
    IF o.err # Nil
    THEN [c |-> [c EXCEPT !.calls = @ + 1, !.ret = <<MapOf(c.m), o.err>>],
          go |-> FALSE]
    ELSE [c |-> [c EXCEPT !.calls = @ + 1, !.m = (o.key :> o.val) @@ @],
          go |-> TRUE]

\* the body of `for _, v := range slice` in Remap
RemapBody(c, v) ==
    LET o == c.arg[v] IN
    IF o.err # Nil
    THEN [c |-> [c EXCEPT !.calls = @ + 1, !.ret = <<NilMap, o.err>>],
          go |-> FALSE]
    ELSE [c |-> [c EXCEPT !.calls = @ + 1, !.m = (o.key :> o.val) @@ @],
          go |-> TRUE]

\* the body of `for _, v := range slice` in ToMap
ToMapBody(c, v) ==
    [c |-> [c EXCEPT !.calls = @ + 1, !.m = (c.arg[v] :> v) @@ @],
     go |-> TRUE]

\* the elements g produces when RemoveSeq drives it once more
Avail(c) ==
    CASE c.arg.mode = "restart" -> c.arg.g
      [] c.arg.mode = "once"    -> IF c.drv = 0 THEN c.arg.g ELSE <<>>
      [] OTHER                  -> SubSeq(c.arg.g, c.gpos + 1, Len(c.arg.g))

\* the number of elements the loop `for v2 := range g` receives from the
\* elements g: up to the first one equal to v, where it breaks
Received(g, v) ==
    IF Found(g, v) THEN CHOOSE j \in 1..Len(g) :
                            /\ g[j] = v
                            /\ \A k \in 1..(j - 1) : g[k] # v
    ELSE Len(g)

\* g is driven once, before the loop, and its elements are kept
RemoveLoopBodyCached(c, v) ==
    LET n == Received(c.arg.g, v)
        r == RemoveBody(c.arg.g, FreshEnv, v)
    IN  [c |-> [c EXCEPT !.drv = 1, !.gpos = Len(c.arg.g),
                         !.trace = Append(@, n),
                         !.items = IF r.emit THEN Append(@, v) ELSE @],
         go |-> TRUE]

\* the body of `for v1 := range s` in RemoveSeq, collected by
\* slices.Collect: one drive of g, then the yield of v1 unless found
RemoveLoopBody(c, v) ==
    LET n == Received(Avail(c), v)
        r == RemoveBody(Avail(c), FreshEnv, v)
    IN  [c |-> [c EXCEPT !.drv = @ + 1, !.gpos = @ + n,
                         !.trace = Append(@, n),
                         !.items = IF r.emit THEN Append(@, v) ELSE @],
         go |-> TRUE]

LoopBody(c, v) ==
    CASE c.fn = "CountSeq"   -> CountBody(c, v)
      [] c.fn = "SumFuncSeq" -> SumFuncBody(c, v)
      [] c.fn = "SumSeq"     -> CollectBody(c, v)
      [] c.fn = "IsEmptySeq" -> IsEmptyBody(c, v)
      [] c.fn = "Collect"    -> CollectBody(c, v)
      [] c.fn = "Remap"      -> RemapBody(c, v)
      [] c.fn = "RemoveSeq"  -> RemoveLoopBody(c, v)
      [] c.fn = "ToMap"      -> ToMapBody(c, v)

\* slices.Sort(items): ascending
RECURSIVE Insert(_, _)
Insert(x, s) ==
    IF s = <<>> THEN <<x>>
    ELSE IF x <= Head(s) THEN <<x>> \o s
    ELSE <<Head(s)>> \o Insert(x, Tail(s))

RECURSIVE Sort(_)
Sort(s) == IF s = <<>> THEN <<>> ELSE Insert(Head(s), Sort(Tail(s)))

\* `result = v` instead of `result += v`
RECURSIVE AccumulateLast(_, _)
AccumulateLast(items, result) ==
    IF items = <<>> THEN result
    ELSE AccumulateLast(Tail(items), Head(items))

\* `for _, v := range items { result += v }`
RECURSIVE Accumulate(_, _)
Accumulate(items, result) ==
    IF items = <<>> THEN result
    ELSE Accumulate(Tail(items), Add(result, Head(items)))

\* the sum stops at the largest and the smallest value of the type
SumItemsSaturating(items) ==
    LET RECURSIVE Acc(_, _)
        Acc(rest, result) ==
            IF rest = <<>> THEN result
            ELSE LET x == result + Head(rest) IN
                 Acc(Tail(rest), IF x > 2^7 - 1 THEN 2^7 - 1
                                 ELSE IF x < -(2^7) THEN -(2^7) ELSE x)
    IN  Acc(Sort(items), 0)

\* SumSeq after slices.Collect: sort, then add up from the zero value
SumItems(items) == Accumulate(Sort(items), 0)

\* what the function returns when its loop has run to the end of s
AtEnd(c) ==
    CASE c.fn = "CountSeq"   -> <<c.sum>>
      [] c.fn = "SumFuncSeq" -> <<c.sum, Nil>>
      [] c.fn = "SumSeq"     -> <<SumItems(c.items)>>
      [] c.fn = "IsEmptySeq" -> <<TRUE>>
      [] c.fn = "Collect"    -> <<c.items>>
      [] c.fn = "Remap"      -> <<MapOf(c.m), Nil>>
      [] c.fn = "RemoveSeq"  -> <<c.items>>
      [] c.fn = "ToMap"      -> <<MapOf(c.m)>>

\* append moves the elements into a new backing array
AppendTailCopy(slice, i) ==
    [ret |-> [j \in 1..(Len(slice) - 1) |->
                IF j < i THEN slice[j] ELSE slice[j + 1]],
     array |-> slice]

\* append(slice[:i], slice[i+1:]...) for the element at place i (counted
\* from 1): slice[:i] keeps the capacity of slice, so the tail is copied
\* one place to the left inside the backing array of slice, whose last
\* place is not written
AppendTail(slice, i) ==
    [ret |-> [j \in 1..(Len(slice) - 1) |->
                IF j < i THEN slice[j] ELSE slice[j + 1]],
     array |-> [j \in 1..Len(slice) |->
                  IF j < i \/ j = Len(slice) THEN slice[j]
                  ELSE slice[j + 1]]]

\* every element equal to one of vals is removed
DeleteEvery(slice, vals, i) ==
    LET Stays(x) == ~Found(vals, x)
        kept == SelectSeq(slice, Stays)
    IN  [ret |-> kept,
         array |-> [j \in 1..Len(slice) |->
                      IF j <= Len(kept) THEN kept[j] ELSE slice[j]]]

\* Delete from index i on: the scan `for i, v := range slice`, with the
\* inner scan of vals, up to the first hit, where
\* append(slice[:i], slice[i+1:]...) moves the tail one place to the left
\* inside the backing array of slice and returns the shortened slice.
\* ret is the slice returned, array what the caller's slice reads afterwards.
RECURSIVE DeleteFrom(_, _, _)
DeleteFrom(slice, vals, i) ==
    IF i > Len(slice) THEN [ret |-> slice, array |-> slice]
    ELSE IF Found(vals, slice[i])
    THEN AppendTail(slice, i)
    ELSE DeleteFrom(slice, vals, i + 1)

Delete(slice, vals) == DeleteFrom(slice, vals, 1)

\* FilterStrings(s, p): slices.Collect(PatternSeq(values, p)) on a
\* []string; the nil result of an empty collection is replaced by
\* []string{}, which reads as the same empty sequence
FilterStrings(s, p) ==
    Collect([kind |-> "PatternSeq", arg |-> [pattern |-> p, S |-> "string"]],
            s)

\* the strings are removed from the set of distinct strings of s
RemoveStringsDistinct(s, p) ==
    Collect([kind |-> "RemoveSeq", arg |-> FilterStrings(s, p)],
            Deduplicate(s))

\* RemoveStrings(s, p): slices.Collect(RemoveSeq(values, PatternSeq(values,
\* p))); the exclude sequence is the pattern combinator over the same
\* slice-backed values, which every inner drive of RemoveSeq runs from the
\* start again and which produces the matching strings each time
RemoveStrings(s, p) ==
    Collect([kind |-> "RemoveSeq", arg |-> FilterStrings(s, p)], s)

StringFuncs == {"FilterStrings", "RemoveStrings"}

\* `if v > 0`: every key of tmp is reported
DuplicateKeysAny(tmp) == {k \in DOMAIN tmp : tmp[k] > 0}

\* the keys `for k, v := range tmp` appends: those with v > 1
DuplicateKeys(tmp) == {k \in DOMAIN tmp : tmp[k] > 1}

\* the first loop of Duplicates: tmp counts the occurrences of each value
RECURSIVE CountInto(_, _)
CountInto(slice, tmp) ==
    IF slice = <<>> THEN tmp
    ELSE LET v == Head(slice) IN
         CountInto(Tail(slice),
                   IF v \in DOMAIN tmp THEN [tmp EXCEPT ![v] = @ + 1]
                   ELSE (v :> 1) @@ tmp)

\* the orders in which a range over a map with the key set K may visit it
MapOrders(K) ==
    {q \in [1..Cardinality(K) -> K] :
        \A a, b \in 1..Cardinality(K) : a # b => q[a] # q[b]}

\* the slices Duplicates(slice) may return: the keys counted more than
\* once, in any order of the map iteration
Duplicates(slice) == MapOrders(DuplicateKeys(CountInto(slice, EmptyMap)))

\* no call of a consuming function is under way
NotCalled == [fn |-> "none", arg |-> <<>>, pc |-> "idle", i |-> 0,
              seen |-> 0, calls |-> 0, sum |-> 0, items |-> <<>>,
              m |-> EmptyMap, drv |-> 0, gpos |-> 0, trace |-> <<>>,
              left |-> FALSE, ret |-> <<>>]

\* ------------------------------------------------------------------ state
VARIABLES
    src,       \* the slice behind slices.Values
    conf,      \* the combinator the client uses and its argument
    up,        \* up[i]: -1 not constructed, 0 wraps the slice, j wraps instance j
    cell,      \* cell[i]: where the variables captured by instance i live
    env,       \* env[c]: the captured variables m, h, groups
    used,      \* used[i]: instance i has taken part in a traversal
    pc,        \* "idle", "src" / "grp" (source loop), "visit" (in the visitor)
    top,       \* the instance the client is driving (0: none)
    fresh,     \* no instance of the current drive had been used before it
    stop,      \* the visitor always answers false (else: always true)
    cur,       \* the value handed to the visitor
    pos,       \* elements of src handed out in the current drive
    pulled,    \* pulled[i]: elements instance i received in the current drive
    emitted,   \* emitted[i]: calls instance i made to its yield in this drive
    gotStop,   \* gotStop[i]: a yield of instance i returned false in this drive
    ret,       \* ret[i]: what the body of i last returned to its upstream
    mark,      \* pos, pulled, emitted when the visitor first answered false
    vret,      \* the visitor's answers in the current drive, in order
    out,       \* the values the visitor received in the current drive
    gdone,     \* GroupSeq: keys whose group was already yielded in this drive
    hist,      \* the finished drives
    last,      \* the last eager call
    drives,    \* traversals started so far
    srcReads,  \* elements of src read so far
    call       \* the call of a consuming function that is under way or done

vars == <<src, conf, up, cell, env, used, pc, top, fresh, stop, cur, pos,
          pulled, emitted, gotStop, ret, mark, vret, out, gdone, hist, last,
          drives, srcReads, call>>

NoMark == [set |-> FALSE, pos |-> 0, pulled |-> [i \in Inst |-> 0],
           emitted |-> [i \in Inst |-> 0]]

NoCall == [fn |-> "none", chained |-> FALSE, in |-> <<>>, out |-> <<>>,
           n |-> 0]

Init ==
    /\ src \in Sources
    /\ conf \in Configs
    /\ up = [i \in Inst |-> 0 - 1]
    /\ cell = [i \in Inst |-> 0]
    /\ env = [c \in Inst |-> FreshEnv]
    /\ used = [i \in Inst |-> FALSE]
    /\ pc = "idle"
    /\ top = 0
    /\ fresh = FALSE
    /\ stop = FALSE
    /\ cur = 0
    /\ pos = 0
    /\ pulled = [i \in Inst |-> 0]
    /\ emitted = [i \in Inst |-> 0]
    /\ gotStop = [i \in Inst |-> FALSE]
    /\ ret = [i \in Inst |-> "none"]
    /\ mark = NoMark
    /\ vret = <<>>
    /\ out = <<>>
    /\ gdone = {}
    /\ hist = <<>>
    /\ last = NoCall
    /\ drives = 0
    /\ srcReads = 0
    /\ call = NotCalled

Built(i) == up[i] # 0 - 1

\* the instances a drive of t runs through, t first
RECURSIVE Chain(_)
Chain(t) == IF up[t] = 0 THEN {t} ELSE {t} \cup Chain(up[t])

\* the instance of the chain that ranges over the slice itself
RECURSIVE Bottom(_)
Bottom(t) == IF up[t] = 0 THEN t ELSE Bottom(up[t])

\* the instance whose loop body is the yield of i
Down(i) == CHOOSE j \in Chain(top) : up[j] = i

\* where the next element of a drive comes from
LoopPc == IF conf.kind = "GroupSeq" THEN "grp" ELSE "src"

\* maphash seeds a zero Hash at random on first use
SeedDraws(e) == IF conf.kind = "HashSeq" /\ e.seed = 0 THEN Seeds ELSE {e.seed}

\* Instance i receives v from its upstream: its loop body runs, and when it
\* calls yield the value goes to the loop body of the instance above, until
\* a body falls through to its next iteration (reached = FALSE) or the top
\* instance calls the visitor (reached = TRUE).
RECURSIVE Push(_, _, _, _)
Push(i, v, st, sd) ==
    LET r  == Body(conf, st.env[cell[i]], v, sd)
        s1 == [env     |-> [st.env EXCEPT ![cell[i]] = r.env],
               pulled  |-> [st.pulled EXCEPT ![i] = @ + 1],
               emitted |-> IF r.emit THEN [st.emitted EXCEPT ![i] = @ + 1]
                           ELSE st.emitted]
    IN  IF ~r.emit THEN [reached |-> FALSE, val |-> v, st |-> s1]
        ELSE IF i = top THEN [reached |-> TRUE, val |-> r.val, st |-> s1]
        ELSE Push(Down(i), r.val, s1, sd)

\* The yield of instance i has returned ok.  `if !yield(v) { return }`: on
\* true the loop goes on (and so do all the loops below it); on false the
\* body returns false to its upstream, whose own yield has then returned
\* false, down to slices.Values, which returns as well.
RECURSIVE Unwind(_, _, _)
Unwind(i, ok, st) ==
    IF AfterYield(conf.kind, ok)
    THEN [cont |-> TRUE, gotStop |-> st.gotStop,
          ret |-> [j \in Inst |-> IF j \in Chain(i) THEN "true"
                                  ELSE st.ret[j]]]
    ELSE LET s1 == [gotStop |-> st.gotStop,
                    ret |-> [st.ret EXCEPT ![i] = "false"]]
         IN  IF up[i] = 0 THEN [cont |-> FALSE] @@ s1
             ELSE Unwind(up[i], FALSE,
                         [s1 EXCEPT !.gotStop = [@ EXCEPT ![up[i]] = TRUE]])

\* seq(visitor) returns to the client: the drive is put on record
Finish(d) ==
    /\ hist' = Append(hist, [inst |-> top, fresh |-> fresh, stop |-> stop,
                             out |-> d.out, vret |-> d.vret,
                             full |-> \A j \in 1..Len(d.vret) : d.vret[j],
                             exhausted |-> d.exhausted,
                             gotStop |-> d.gotStop, ret |-> d.ret,
                             pos |-> pos, pulled |-> pulled,
                             emitted |-> emitted, mark |-> d.mark,
                             fnCalls |-> [i \in Inst |->
                                 pulled[i] * UserCalls(conf.kind)]])
    /\ pc' = "idle"
    /\ top' = 0
    /\ fresh' = FALSE
    /\ stop' = FALSE
    /\ cur' = 0
    /\ pos' = 0
    /\ pulled' = [i \in Inst |-> 0]
    /\ emitted' = [i \in Inst |-> 0]
    /\ gotStop' = [i \in Inst |-> FALSE]
    /\ ret' = [i \in Inst |-> "none"]
    /\ mark' = NoMark
    /\ vret' = <<>>
    /\ out' = <<>>
    /\ gdone' = {}

\* ---------------------------------------------------------------- actions
\* XSeq(s, arg): the construction call.  Only GroupSeq touches s here.
Construct(i, u) ==
    /\ pc = "idle"
    /\ ~Built(i)
    /\ \A j \in Inst : j < i => Built(j)
    /\ \/ u = 0
       \/ u \in Inst /\ u < i /\ Built(u) /\ conf.kind \in SameType
    /\ up' = [up EXCEPT ![i] = u]
    /\ cell' = [cell EXCEPT ![i] = AllocCell(i)]
    /\ env' = [env EXCEPT ![AllocCell(i)] =
                 IF conf.kind = "GroupSeq"
                 THEN [FreshEnv EXCEPT
                         !.groups = BuildGroups(src, conf.arg, EmptyMap)]
                 ELSE FreshEnv]
    /\ srcReads' = IF conf.kind = "GroupSeq" THEN srcReads + Len(src)
                   ELSE srcReads
    /\ UNCHANGED <<call, src, conf, used, pc, top, fresh, stop, cur, pos, pulled,
                   emitted, gotStop, ret, mark, vret, out, gdone, hist, last,
                   drives>>

\* seq(visitor): the client starts driving instance i, either with the
\* visitor of slices.Collect, which appends and answers true, or with one
\* that answers false to whatever it receives
Drive(i, k) ==
    /\ pc = "idle"
    /\ Built(i)
    /\ drives < MaxDrives
    /\ top' = i
    /\ stop' = k
    /\ fresh' = (\A j \in Chain(i) : ~used[j])
    /\ used' = [j \in Inst |-> used[j] \/ j \in Chain(i)]
    /\ pc' = LoopPc
    /\ drives' = drives + 1
    /\ UNCHANGED <<call, src, conf, up, cell, env, cur, pos, pulled, emitted,
                   gotStop, ret, mark, vret, out, gdone, hist, last,
                   srcReads>>

\* slices.Values: one iteration of `for _, v := range s`, which hands v to
\* the loop bodies above it, or the end of the slice
Element ==
    /\ pc = "src"
    /\ IF pos < Len(src)
       THEN \E sd \in SeedDraws(env[cell[Bottom(top)]]) :
              LET r == Push(Bottom(top), src[pos + 1],
                            [env |-> env, pulled |-> pulled,
                             emitted |-> emitted], sd)
              IN  /\ pos' = pos + 1
                  /\ srcReads' = srcReads + 1
                  /\ env' = r.st.env
                  /\ pulled' = r.st.pulled
                  /\ emitted' = r.st.emitted
                  /\ IF r.reached
                     THEN /\ cur' = r.val
                          /\ pc' = "visit"
                          /\ ret' = ret
                     ELSE /\ ret' = [j \in Inst |->
                                       IF j \in Chain(top) THEN "true"
                                       ELSE ret[j]]
                          /\ UNCHANGED <<cur, pc>>
                  /\ UNCHANGED <<top, fresh, stop, gotStop, mark, vret, out,
                                 gdone, hist>>
       ELSE /\ Finish([out |-> out, vret |-> vret, exhausted |-> TRUE,
                       gotStop |-> gotStop, ret |-> ret, mark |-> mark])
            /\ UNCHANGED <<env, srcReads>>
    /\ UNCHANGED <<call, src, conf, up, cell, used, last, drives>>

\* the closure GroupSeq returned: one iteration of the range over the
\* groups map, whose iteration order Go leaves unspecified, or its end
GroupNext ==
    /\ pc = "grp"
    /\ LET groups == env[cell[top]].groups IN
       IF gdone # DOMAIN groups
       THEN /\ \E key \in DOMAIN groups \ gdone :
                 /\ cur' = groups[key]
                 /\ gdone' = gdone \cup {key}
            /\ emitted' = [emitted EXCEPT ![top] = @ + 1]
            /\ pc' = "visit"
            /\ UNCHANGED <<top, fresh, stop, pos, pulled, gotStop, ret, mark,
                           vret, out, hist>>
       ELSE Finish([out |-> out, vret |-> vret, exhausted |-> TRUE,
                    gotStop |-> gotStop, ret |-> ret, mark |-> mark])
    /\ UNCHANGED <<call, src, conf, up, cell, env, used, last, drives, srcReads>>

\* the client's visitor receives cur and answers; the answer travels back
\* through the loop bodies, which go on or return
Visit ==
    /\ pc = "visit"
    /\ LET b  == ~stop
           v1 == Append(vret, b)
           o1 == Append(out, cur)
           r  == Unwind(top, b,
                        [gotStop |-> [gotStop EXCEPT ![top] = @ \/ ~b],
                         ret |-> ret])
           m1 == IF ~b /\ ~mark.set
                 THEN [set |-> TRUE, pos |-> pos, pulled |-> pulled,
                       emitted |-> emitted]
                 ELSE mark
       IN  IF r.cont
           THEN /\ vret' = v1
                /\ out' = o1
                /\ mark' = m1
                /\ gotStop' = r.gotStop
                /\ ret' = r.ret
                /\ pc' = LoopPc
                /\ UNCHANGED <<top, fresh, stop, cur, pos, pulled, emitted,
                               gdone, hist>>
           ELSE Finish([out |-> o1, vret |-> v1,
                        exhausted |->
                          IF conf.kind = "GroupSeq"
                          THEN gdone = DOMAIN env[cell[top]].groups
                          ELSE pos = Len(src),
                        gotStop |-> r.gotStop, ret |-> r.ret, mark |-> m1])
    /\ UNCHANGED <<call, src, conf, up, cell, env, used, last, drives, srcReads>>

\* Select, Deduplicate, Change, Convert, ToAny: the eager helper of the
\* configured combinator, called on the slice or (chained) on the result
\* of the previous call
CallEager(chained) ==
    /\ pc = "idle"
    /\ EagerOf(conf.kind) # "none"
    /\ drives < MaxDrives
    /\ chained => last.n > 0 /\ conf.kind \in SameType
    /\ LET input == IF chained THEN last.out ELSE src IN
       /\ last' = [fn |-> EagerOf(conf.kind), chained |-> chained,
                   in |-> input, out |-> Eager(conf, input),
                   n |-> last.n + 1]
       /\ srcReads' = IF chained THEN srcReads ELSE srcReads + Len(src)
    /\ drives' = drives + 1
    /\ UNCHANGED <<call, src, conf, up, cell, env, used, pc, top, fresh, stop, cur,
                   pos, pulled, emitted, gotStop, ret, mark, vret, out, gdone,
                   hist>>

Next ==
    \/ \E i \in Inst : \E u \in {0} \cup Inst : Construct(i, u)
    \/ \E i \in Inst : \E k \in BOOLEAN : Drive(i, k)
    \/ Element
    \/ GroupNext
    \/ Visit
    \/ \E chained \in BOOLEAN : CallEager(chained)

Spec == Init /\ [][Next]_vars

\* ------------------------------------- calls of the consuming functions
\* A second specification: the client calls CountSeq, SumFuncSeq, SumSeq or
\* IsEmptySeq on one sequence built over a slice (as Count, Empty and
\* Aggregate of slices.go do), and the call runs element by element.
combinators == <<up, cell, env, used, pc, top, fresh, stop, cur, pos, pulled,
                 emitted, gotStop, ret, mark, vret, out, gdone, hist, last,
                 srcReads>>

InitCalls ==
    /\ src \in Slices
    /\ conf \in Upstreams
    /\ call = NotCalled
    /\ up = [i \in Inst |-> 0 - 1]
    /\ cell = [i \in Inst |-> 0]
    /\ env = [c \in Inst |-> FreshEnv]
    /\ used = [i \in Inst |-> FALSE]
    /\ pc = "idle"
    /\ top = 0
    /\ fresh = FALSE
    /\ stop = FALSE
    /\ cur = 0
    /\ pos = 0
    /\ pulled = [i \in Inst |-> 0]
    /\ emitted = [i \in Inst |-> 0]
    /\ gotStop = [i \in Inst |-> FALSE]
    /\ ret = [i \in Inst |-> "none"]
    /\ mark = NoMark
    /\ vret = <<>>
    /\ out = <<>>
    /\ gdone = {}
    /\ hist = <<>>
    /\ last = NoCall
    /\ drives = 0
    /\ srcReads = 0

\* what the function returns once its loop is over: the value of the
\* `return` inside the loop if one was executed, else the one after it
Returned(c) == IF c.ret = <<>> THEN AtEnd(c) ELSE c.ret

\* the loop of a consuming function run over the elements s it is fed
RECURSIVE LoopOver(_, _)
LoopOver(c, s) ==
    IF s = <<>> THEN Returned(c)
    ELSE LET b == LoopBody(c, Head(s)) IN
         IF b.go THEN LoopOver(b.c, Tail(s)) ELSE Returned(b.c)

\* SumFuncSeq(s, fn) for a sequence that hands on the elements s
SumFuncSeq(s, fn) ==
    LoopOver([NotCalled EXCEPT !.fn = "SumFuncSeq", !.arg = fn], s)

\* f(s): the client calls a consuming function on the sequence
Begin(f, a) ==
    /\ call.pc # "loop"
    /\ f = "SumFuncSeq" => conf.kind \in {"Values", "FilterSeq"}
    /\ f = "SumSeq" => ElemType(conf) = "int"
    /\ f \in MapBuilders \cup {"RemoveSeq"} => conf.kind = "Values"
    /\ call' = [NotCalled EXCEPT !.fn = f, !.arg = a, !.pc = "loop"]
    /\ UNCHANGED <<src, conf, drives>>
    /\ UNCHANGED combinators

\* slices.Values hands the next element of the slice to the loop of the
\* sequence, which may hand a value on to the loop of the consuming
\* function; when that loop is left, yield returns false, the sequence
\* returns (`if !yield(v) { return }`), and the function returns
Consume ==
    /\ call.pc = "loop"
    /\ call.i < Len(src)
    /\ LET r  == Upstream(conf, src[call.i + 1])
           c1 == [call EXCEPT !.i = @ + 1]
           c2 == [c1 EXCEPT !.seen = @ + 1]
           b  == LoopBody(c2, r.val)
       IN  IF ~r.emit THEN call' = c1
           ELSE IF call.left THEN call' = c2
           ELSE IF b.go THEN call' = b.c
           ELSE IF conf.kind = "Values" \/ ~AfterYield(conf.kind, FALSE)
                THEN call' = [b.c EXCEPT !.pc = "done", !.ret = Returned(b.c)]
                ELSE call' = [b.c EXCEPT !.left = TRUE]
    /\ UNCHANGED <<src, conf, drives>>
    /\ UNCHANGED combinators

\* the slice is used up: the loop ends and the function returns
Return ==
    /\ call.pc = "loop"
    /\ call.i = Len(src)
    /\ call' = [call EXCEPT !.pc = "done", !.ret = Returned(call)]
    /\ UNCHANGED <<src, conf, drives>>
    /\ UNCHANGED combinators

\* Delete(src, vals...), called on the slice itself: the call works inside
\* the backing array of src, so the client's slice reads differently
\* afterwards; the call record keeps the slice as it was passed (items) and
\* the slice returned (ret)
CallDelete(vals) ==
    /\ call.pc # "loop"
    /\ conf.kind = "Values"
    /\ LET d == Delete(src, vals) IN
       /\ call' = [NotCalled EXCEPT !.fn = "Delete", !.arg = vals,
                                    !.pc = "done", !.items = src,
                                    !.ret = <<d.ret>>]
       /\ src' = d.array
    /\ UNCHANGED <<conf, drives>>
    /\ UNCHANGED combinators

\* FilterStrings(src, p) or RemoveStrings(src, p), the slice read as a
\* []string
CallStrings(f, p) ==
    /\ call.pc # "loop"
    /\ conf.kind = "Values"
    /\ call' = [NotCalled EXCEPT
                   !.fn = f, !.arg = p, !.pc = "done", !.items = src,
                   !.ret = <<IF f = "FilterStrings" THEN FilterStrings(src, p)
                             ELSE RemoveStrings(src, p)>>]
    /\ UNCHANGED <<src, conf, drives>>
    /\ UNCHANGED combinators

\* Duplicates(src): the map iteration picks the order of the result
CallDuplicates ==
    /\ call.pc # "loop"
    /\ conf.kind = "Values"
    /\ \E r \in Duplicates(src) :
          call' = [NotCalled EXCEPT !.fn = "Duplicates", !.pc = "done",
                                    !.items = src, !.ret = <<r>>]
    /\ UNCHANGED <<src, conf, drives>>
    /\ UNCHANGED combinators

NextCalls ==
    \/ \E f \in Consumers \cup MapBuilders \cup {"RemoveSeq"} :
          \E a \in ConsumerArgs(f) : Begin(f, a)
    \/ Consume
    \/ Return
    \/ \E vals \in Excludes : CallDelete(vals)
    \/ \E f \in StringFuncs :
          \E a \in Patterns({"string"}) : CallStrings(f, a.pattern)
    \/ CallDuplicates

SpecCalls == InitCalls /\ [][NextCalls]_vars

\* ------------------------------------------------------------ vocabulary
Wrapping == Kinds \ {"GroupSeq"}

Driving == pc # "idle"

NoRepeat(s) == \A a, b \in 1..Len(s) : a # b => s[a] # s[b]

Occurrences(s, v) == Cardinality({j \in 1..Len(s) : s[j] = v})

\* index of the n-th occurrence of v in s
NthPos(s, v, n) ==
    CHOOSE j \in 1..Len(s) :
        s[j] = v /\ Cardinality({k \in 1..j : s[k] = v}) = n

Records == {hist[j] : j \in 1..Len(hist)}

\* finished drives that ran an instance built directly over the slice, never
\* used before, to the end of the source
FreshFull == {h \in Records : h.fresh /\ h.full /\ up[h.inst] = 0}

\* ------------------------------------------------------------------ C1
\* C1: once a yield of a wrapping combinator has returned false in a drive,
\* the visitor is not invoked again, no instance receives a further element
\* or calls its yield again (the drive ends with the counts it had at that
\* moment), and every instance whose yield returned false has itself
\* returned false to its upstream (checked for each drive at the step that
\* finishes it).
C1_StopForwarded ==
    [][conf.kind \in Wrapping =>
         /\ \A i \in Inst :
              (gotStop[i] /\ pc' # "idle") =>
                  /\ emitted'[i] = emitted[i]
                  /\ pulled'[i] = pulled[i]
                  /\ srcReads' = srcReads
                  /\ vret' = vret
         /\ hist' # hist =>
              LET h == hist'[Len(hist')] IN
              /\ \A k \in 1..(Len(h.vret) - 1) : h.vret[k]
              /\ h.mark.set =>
                   /\ h.pos = h.mark.pos
                   /\ h.pulled = h.mark.pulled
                   /\ h.emitted = h.mark.emitted
              /\ \A i \in Inst : h.gotStop[i] => h.ret[i] = "false"]_vars

\* a drive through two stacked instances was stopped by the visitor with
\* source elements left, and both instances have reported false
C1_Witness ==
    \E h \in Records :
        /\ h.inst = 2 /\ up[2] = 1
        /\ h.gotStop[1] /\ h.gotStop[2]
        /\ h.ret[1] = "false" /\ h.ret[2] = "false"
        /\ h.pos < Len(src)

\* ------------------------------------------------------------------ C2
\* C2 (as stated): a drive whose visitor answers false every time invokes
\* the visitor exactly once, whatever the source.
C2_ExactlyOnce ==
    \A h \in Records : h.stop => Len(h.vret) = 1

\* C2 (amended): a drive whose visitor answers false every time invokes the
\* visitor at most once, and not at all only when the source was used up
\* without anything to yield.
C2_AtMostOnce ==
    \A h \in Records :
        h.stop =>
            /\ Len(h.vret) <= 1
            /\ Len(h.vret) = 0 => h.exhausted

\* the visitor said false to the first value of a source with more to come
C2_Witness ==
    \E h \in Records :
        /\ h.stop
        /\ Len(h.vret) = 1 /\ ~h.vret[1]
        /\ Len(src) - h.pos >= 2

\* ------------------------------------------------------------------ C3
\* C3: a construction call reads no element of the source; elements are
\* read only while a sequence is being driven (or an eager helper collects).
C3_ConstructionIsLazy ==
    [][/\ up' # up => srcReads' = srcReads
       /\ srcReads' # srcReads => Driving \/ last' # last]_vars

\* ------------------------------------------------------------------ C4
\* two results of the same sequence count as equal when they list the same
\* elements in the same order (GroupSeq: the same groups, in any order,
\* since Go does not fix the order in which a map is ranged over)
SameResult(a, b) ==
    IF conf.kind = "GroupSeq" THEN Range(a) = Range(b) ELSE a = b

\* C4: two drives of the same sequence value, each run to the end of a
\* restartable source, yield the same elements in the same order.
C4_RedriveSame ==
    \A a, b \in 1..Len(hist) :
        (a < b /\ hist[a].inst = hist[b].inst /\ hist[a].full /\ hist[b].full)
            => SameResult(hist[a].out, hist[b].out)

\* ------------------------------------------------------------------ C5
\* what a fresh instance over the slice yields when driven to the end
\* (HashSeq: the elements of the pairs; GroupSeq: the set of groups)
Elements(o) ==
    CASE conf.kind = "HashSeq"  -> [j \in 1..Len(o) |-> o[j][2]]
      [] conf.kind = "GroupSeq" -> Range(o)
      [] OTHER                  -> o

FullResult ==
    CASE conf.kind = "HashSeq"  -> src
      [] conf.kind = "GroupSeq" ->
           LET g == BuildGroups(src, conf.arg, EmptyMap)
           IN  {g[k] : k \in DOMAIN g}
      [] OTHER                  -> Collect(conf, src)

\* C5: a step that constructs or drives another instance leaves the
\* captured state of an instance untouched, and so every instance built
\* over the slice yields its full result on its first complete drive,
\* whatever was done with the other instance before (checked for each drive
\* at the step that finishes it).
C5_Independent ==
    [][/\ \A i \in Inst :
            (Built(i) /\ (pc = "idle" \/ i \notin Chain(top)))
                => env'[cell'[i]] = env[cell[i]]
       /\ hist' # hist =>
            LET h == hist'[Len(hist')] IN
            (h.fresh /\ h.full /\ up[h.inst] = 0)
                => Elements(h.out) = FullResult]_vars

\* the second of two instances built over the same slice was driven to the
\* end after the first one had been driven, and it yielded something
C5_Witness ==
    /\ Len(hist) = 2
    /\ hist[1].inst = 1 /\ hist[2].inst = 2
    /\ up[1] = 0 /\ up[2] = 0
    /\ conf.kind \in {"DuplicateSeq", "DeduplicationSeq", "GroupSeq"}
    /\ hist[1].out # <<>>
    /\ hist[2].full /\ hist[2].out # <<>>

\* ------------------------------------------------------------------ C6
\* C6: FilterSeq driven to the end yields the subsequence of the source
\* whose elements satisfy the predicate, never more than the source holds;
\* Select collects the same list.
C6_FilterSubsequence ==
    conf.kind = "FilterSeq" =>
        LET Keep(x) == conf.arg[x] IN
        /\ \A h \in Records :
             (h.full /\ up[h.inst] = 0) =>
                 /\ h.out = SelectSeq(src, Keep)
                 /\ Len(h.out) <= Len(src)
        /\ last.fn = "Select" => last.out = SelectSeq(last.in, Keep)

\* a filter kept some elements of the source and dropped others
C6_Witness ==
    /\ conf.kind = "FilterSeq"
    /\ \E h \in Records :
         h.full /\ up[h.inst] = 0 /\ h.out # <<>> /\ Len(h.out) < Len(src)

\* ------------------------------------------------------------------ C7
\* C7: RemoveSeq over a slice-backed exclude sequence yields, in source
\* order, the source elements equal to no exclude element; with an empty
\* exclude sequence it yields the source unchanged.
C7_RemoveMembership ==
    conf.kind = "RemoveSeq" =>
        LET Keep(x) == x \notin Range(conf.arg) IN
        \A h \in Records :
            (h.full /\ up[h.inst] = 0) =>
                /\ h.out = SelectSeq(src, Keep)
                /\ conf.arg = <<>> => h.out = src

\* some source elements were found in the exclude slice, others were not
C7_Witness ==
    /\ conf.kind = "RemoveSeq"
    /\ conf.arg # <<>>
    /\ \E h \in Records :
         h.full /\ up[h.inst] = 0 /\ h.out # <<>> /\ Len(h.out) < Len(src)

\* ------------------------------------------------------------------ C8
\* C8: the first complete drive of a new DuplicateSeq yields exactly the
\* values occurring at least twice, each once, ordered by the position of
\* their second occurrence.
C8_DuplicateSecondSighting ==
    conf.kind = "DuplicateSeq" =>
        \A h \in FreshFull :
            /\ NoRepeat(h.out)
            /\ Range(h.out) = {v \in Range(src) : Occurrences(src, v) >= 2}
            /\ \A a, b \in 1..Len(h.out) :
                 a < b => NthPos(src, h.out[a], 2) < NthPos(src, h.out[b], 2)

\* two duplicated values whose second occurrences come in the opposite
\* order of their first ones
C8_Witness ==
    /\ conf.kind = "DuplicateSeq"
    /\ \E h \in FreshFull : Len(h.out) = 2 /\ src[1] = h.out[2]

\* ------------------------------------------------------------------ C9
\* the distinct values of s in the order of their first occurrence
IsDistinctInOrder(o, s) ==
    /\ NoRepeat(o)
    /\ Range(o) = Range(s)
    /\ \A a, b \in 1..Len(o) :
         a < b => NthPos(s, o[a], 1) < NthPos(s, o[b], 1)

\* C9: the first complete drive of a new DeduplicationSeq yields each
\* distinct value once, in first-seen order; Deduplicate collects that list.
C9_DeduplicateFirstSighting ==
    conf.kind = "DeduplicationSeq" =>
        /\ \A h \in FreshFull : IsDistinctInOrder(h.out, src)
        /\ last.fn = "Deduplicate" => IsDistinctInOrder(last.out, last.in)

\* a source with repeated values was reduced to two distinct ones
C9_Witness ==
    /\ conf.kind = "DeduplicationSeq"
    /\ \E h \in FreshFull : Len(h.out) = 2 /\ Len(src) >= 4

\* ------------------------------------------------------------------ C10
\* C10: Deduplicate applied to a result of Deduplicate returns it
\* unchanged, and a DeduplicationSeq stacked on a new DeduplicationSeq,
\* collected once, yields what Deduplicate returns for the same slice.
C10_DeduplicateIdempotent ==
    (conf.kind = "DeduplicationSeq" /\ last.fn = "Deduplicate") =>
        /\ last.chained => last.out = last.in
        /\ ~last.chained =>
             \A h \in Records :
                 (h.fresh /\ h.full /\ up[h.inst] # 0) => h.out = last.out

\* Deduplicate was applied twice in a row to a slice with repeated values
C10_Witness ==
    /\ conf.kind = "DeduplicationSeq"
    /\ last.fn = "Deduplicate" /\ last.chained
    /\ Len(last.out) = 2 /\ Len(src) >= 3

\* ------------------------------------------------------------------ C11
\* the source elements whose key is k, in source order
GroupOf(k) ==
    LET HasKey(x) == conf.arg[x] = k IN SelectSeq(src, HasKey)

\* C11: every drive of a GroupSeq that is run to the end yields one group
\* per distinct key of the source and no other: no group is empty, no two
\* groups share a key, and each group lists the source elements of its key
\* in source order (so every source element is in exactly one group); the
\* order of the groups is left open.
C11_GroupPartition ==
    conf.kind = "GroupSeq" =>
        \A h \in Records :
            ~h.stop =>
                LET keys == {conf.arg[src[j]] : j \in 1..Len(src)} IN
                /\ Len(h.out) = Cardinality(keys)
                /\ \A j \in 1..Len(h.out) :
                     /\ h.out[j] # <<>>
                     /\ h.out[j] = GroupOf(conf.arg[h.out[j][1]])
                /\ \A k \in keys :
                     Cardinality({j \in 1..Len(h.out) : h.out[j] = GroupOf(k)})
                         = 1

\* a source of four elements was split into two groups
C11_Witness ==
    /\ conf.kind = "GroupSeq"
    /\ \E h \in Records : ~h.stop /\ Len(h.out) = 2 /\ Len(src) >= 4

\* ------------------------------------------- vocabulary for the calls
\* the positions of the slice whose element the sequence hands on to the
\* consuming function, and the values it hands on, in order
Passing ==
    LET Passes(k) == Upstream(conf, src[k]).emit
    IN  SelectSeq([k \in 1..Len(src) |-> k], Passes)

Fed == [j \in 1..Len(Passing) |-> Upstream(conf, src[Passing[j]]).val]

Done(f) == call.fn = f /\ call.pc = "done"

\* the sum of the numbers of s as a mathematical integer
RECURSIVE MathSum(_)
MathSum(s) == IF s = <<>> THEN 0 ELSE Head(s) + MathSum(Tail(s))

Rearrangements(s) ==
    {[j \in 1..Len(s) |-> s[f[j]]] : f \in Permutations(1..Len(s))}

\* ------------------------------------------------------------------ C12
\* C12: when SumFuncSeq has returned and fn reports an error for some
\* element it was fed, fn was called for the elements up to the first such
\* element and no further, the slice was read up to that element and no
\* further, and the result is the zero value with the error of that
\* element; when fn reports no error, fn was called once per element and
\* the result is the sum of all fn values (in T) with a nil error.
C12_SumFuncFailFast ==
    Done("SumFuncSeq") =>
        LET bad == {j \in 1..Len(Fed) : call.arg[Fed[j]].err # Nil} IN
        IF bad # {}
        THEN LET j == CHOOSE a \in bad : \A b \in bad : a <= b IN
             /\ call.calls = j
             /\ call.seen = j
             /\ call.i = Passing[j]
             /\ call.ret = <<0, call.arg[Fed[j]].err>>
        ELSE /\ call.calls = Len(Fed)
             /\ call.i = Len(src)
             /\ call.ret =
                  <<Wrap(MathSum([j \in 1..Len(Fed) |-> call.arg[Fed[j]].val])),
                    Nil>>

\* fn failed after a partial sum had built up, with elements still unread
C12_Witness ==
    /\ Done("SumFuncSeq")
    /\ call.ret[2] # Nil
    /\ call.sum # 0
    /\ call.i < Len(src)

\* ------------------------------------------------------------------ C13
\* C13: the loop of IsEmptySeq runs at most once; when it has run, the
\* slice was read up to the first element the sequence handed on and no
\* further; the result is true iff the sequence handed on nothing, which
\* for Empty(slice, f) means that no element of the slice satisfies f.
C13_IsEmptyAtMostOne ==
    call.fn = "IsEmptySeq" =>
        /\ call.seen <= 1
        /\ call.pc = "done" =>
             /\ call.ret = <<Len(Fed) = 0>>
             /\ Len(Fed) > 0 => call.i = Passing[1]
             /\ conf.kind = "FilterSeq" =>
                  (call.ret[1] <=>
                       ~\E k \in 1..Len(src) : conf.arg[src[k]])

\* Empty found a matching element behind a rejected one, with more to come
C13_Witness ==
    /\ Done("IsEmptySeq")
    /\ conf.kind = "FilterSeq"
    /\ call.ret = <<FALSE>>
    /\ 1 < call.i /\ call.i < Len(src)

\* ------------------------------------------------------------------ C14
\* C14: the loop of CountSeq is never left early: when CountSeq has
\* returned, the whole slice was read, the loop ran once per element the
\* sequence handed on, and the result is their number, which for
\* Count(slice, f) is the number of elements of the slice that satisfy f.
C14_CountDrains ==
    call.fn = "CountSeq" =>
        /\ ~call.left
        /\ call.pc = "done" =>
             /\ call.i = Len(src)
             /\ call.seen = Len(Fed)
             /\ call.ret = <<Len(Fed)>>
             /\ conf.kind = "FilterSeq" =>
                  call.ret[1] =
                      Cardinality({k \in 1..Len(src) : conf.arg[src[k]]})

\* Count counted some elements of the slice and passed over others
C14_Witness ==
    /\ Done("CountSeq")
    /\ conf.kind = "FilterSeq"
    /\ call.ret[1] >= 2 /\ call.ret[1] < Len(src)

\* ------------------------------------------------------------------ C15
\* C15: the value SumSeq has returned is the sum (in T) of the elements it
\* was fed, and SumSeq gives that same value for every rearrangement of
\* these elements; it is what adding them up in ascending order gives.
C15_SumOrderIndependent ==
    Done("SumSeq") =>
        /\ call.ret = <<Wrap(MathSum(Fed))>>
        /\ \A p \in Rearrangements(Fed) :
             /\ SumItems(p) = call.ret[1]
             /\ (\A j \in 1..(Len(p) - 1) : p[j] <= p[j + 1])
                    => Accumulate(p, 0) = call.ret[1]

\* SumSeq summed elements that arrived out of order and whose sum does not
\* fit into T
C15_Witness ==
    /\ Done("SumSeq")
    /\ \E j \in 1..(Len(Fed) - 1) : Fed[j] > Fed[j + 1]
    /\ MathSum(Fed) # call.ret[1]

\* ------------------------------------------------------------------ C16
\* C16: every drive of a ReplaceSeq built over the slice yields, position
\* by position, the table entry of the source element if it has one and
\* the source element itself otherwise (the entry is not looked up again),
\* and a drive run to the end yields as many elements as the source has.
C16_ReplaceByTable ==
    conf.kind = "ReplaceSeq" =>
        \A h \in Records :
            up[h.inst] = 0 =>
                /\ Len(h.out) <= Len(src)
                /\ \A j \in 1..Len(h.out) :
                     h.out[j] = IF src[j] \in DOMAIN conf.arg
                                THEN conf.arg[src[j]] ELSE src[j]
                /\ ~h.stop => Len(h.out) = Len(src)

\* an element was replaced by a value that is a key of the table as well
C16_Witness ==
    /\ conf.kind = "ReplaceSeq"
    /\ \E h \in Records :
         /\ up[h.inst] = 0 /\ ~h.stop /\ Len(h.out) >= 2
         /\ \E j \in 1..Len(src) :
              /\ src[j] \in DOMAIN conf.arg
              /\ conf.arg[src[j]] \in DOMAIN conf.arg
              /\ conf.arg[src[j]] # src[j]

\* ------------------------------------------------------------------ C17
\* what an elementwise combinator makes of the element v
Mapped(v) == IF conf.kind = "AnySeq" THEN [any |-> v] ELSE conf.arg[v]

\* C17: every drive of a ReplaceFuncSeq, ConvertSeq or AnySeq built over
\* the slice yields fn of the j-th source element as its j-th element (for
\* AnySeq the element itself, boxed); fn is called once per element the
\* combinator received; a drive run to the end yields as many elements as
\* the source has.  Change, Convert and ToAny return that list.
C17_ElementwiseMap ==
    conf.kind \in {"ReplaceFuncSeq", "ConvertSeq", "AnySeq"} =>
        /\ \A h \in Records :
             up[h.inst] = 0 =>
                 /\ Len(h.out) <= Len(src)
                 /\ \A j \in 1..Len(h.out) : h.out[j] = Mapped(src[j])
                 /\ ~h.stop => Len(h.out) = Len(src)
                 /\ conf.kind # "AnySeq" =>
                      h.fnCalls[h.inst] = h.pulled[h.inst]
                 /\ h.emitted[h.inst] = h.pulled[h.inst]
        /\ last.fn \in {"Change", "Convert", "ToAny"} =>
             /\ Len(last.out) = Len(last.in)
             /\ \A j \in 1..Len(last.in) : last.out[j] = Mapped(last.in[j])

\* a conversion turned different elements into different values
C17_Witness ==
    /\ conf.kind = "ConvertSeq"
    /\ \E h \in Records :
         /\ up[h.inst] = 0 /\ ~h.stop
         /\ Len(h.out) >= 2 /\ h.out[1] # h.out[2]

\* ------------------------------------------------------------------ C18
\* C18: equal elements get equal digests, whichever drives and whichever
\* HashSeq instances yielded them, and a drive run to the end yields one
\* pair per source element, with the elements unchanged and in order.
C18_HashDeterministic ==
    conf.kind = "HashSeq" =>
        /\ \A g, h \in Records :
             \A a \in 1..Len(g.out) : \A b \in 1..Len(h.out) :
                 g.out[a][2] = h.out[b][2] => g.out[a][1] = h.out[b][1]
        /\ \A h \in Records :
             ~h.stop => [j \in 1..Len(h.out) |-> h.out[j][2]] = src

\* ------------------------------------------------------------------ C19
\* the text the claim assigns to element v of a slice of type S: the
\* element itself if it is a string, else its String() result if it has
\* one, else its %v formatting
Projection(S, v) ==
    IF S = "string" THEN Digits(v)
    ELSE IF S = "Stringer" THEN String(v)
    ELSE Sprintf(v)

\* C19: collecting a PatternSeq gives the elements of the slice whose text
\* the pattern matches, collecting a StringPatternSeq those whose text is
\* the literal, in both cases the elements themselves, in slice order.
C19_TextualProjection ==
    (Done("Collect") /\ conf.kind \in {"PatternSeq", "StringPatternSeq"}) =>
        LET Matches(v) ==
                IF conf.kind = "PatternSeq"
                THEN MatchString(conf.arg.pattern, Projection(conf.arg.S, v))
                ELSE Projection(conf.arg.S, v) = conf.arg.pattern
        IN  call.ret = <<SelectSeq(src, Matches)>>

\* a pattern picked some MyStringer elements by a part of their String()
\* text and left others
C19_Witness ==
    /\ Done("Collect")
    /\ conf.kind = "PatternSeq"
    /\ conf.arg.S = "Stringer"
    /\ conf.arg.pattern # <<>>
    /\ call.ret[1] # <<>>
    /\ Len(call.ret[1]) < Len(src)

\* ------------------------------------------------------------------ C20
\* C20: Delete returns the slice it was passed without the element at the
\* smallest index whose value is one of vals, the other elements in their
\* order (later hits included); without such an index (no hit, no vals, an
\* empty slice) it returns the slice as passed.
C20_DeleteFirstHit ==
    Done("Delete") =>
        LET in   == call.items
            r    == call.ret[1]
            hits == {i \in 1..Len(in) : in[i] \in Range(call.arg)}
        IN  IF hits = {} THEN r = in
            ELSE LET i == CHOOSE a \in hits : \A b \in hits : a <= b IN
                 /\ Len(r) = Len(in) - 1
                 /\ \A j \in 1..(i - 1) : r[j] = in[j]
                 /\ \A j \in i..Len(r) : r[j] = in[j + 1]

\* Delete removed an element behind the first one and left a later element
\* that is listed in vals as well
C20_Witness ==
    /\ Done("Delete")
    /\ Len(call.ret[1]) = Len(call.items) - 1
    /\ call.items[1] \notin Range(call.arg)
    /\ \E j \in 1..Len(call.ret[1]) : call.ret[1][j] \in Range(call.arg)

\* ------------------------------------------------------------------ C21
\* the map that holds, for every key f produces on the slice, the value
\* produced with the last element that produces this key
LastWins(KeyAt(_), ValAt(_)) ==
    LET keys == {KeyAt(j) : j \in 1..Len(src)} IN
    [k \in keys |->
        LET j == CHOOSE a \in 1..Len(src) :
                     /\ KeyAt(a) = k
                     /\ \A b \in 1..Len(src) : KeyAt(b) = k => b <= a
        IN  ValAt(j)]

\* C21: when Remap has returned and f reports an error for some element, f
\* was called for the elements up to the first such element and no
\* further, and the result is a nil map with the error of that element;
\* when f reports no error the result is a map with every key produced,
\* each holding the value of its last occurrence, and a nil error.  ToMap
\* returns the map built by the same rule.
C21_RemapFailFastLastWins ==
    /\ Done("Remap") =>
         LET bad == {j \in 1..Len(src) : call.arg[src[j]].err # Nil}
             KeyAt(j) == call.arg[src[j]].key
             ValAt(j) == call.arg[src[j]].val
         IN  IF bad # {}
             THEN LET j == CHOOSE a \in bad : \A b \in bad : a <= b IN
                  /\ call.calls = j
                  /\ call.i = j
                  /\ call.ret = <<NilMap, call.arg[src[j]].err>>
             ELSE /\ call.calls = Len(src)
                  /\ call.ret = <<MapOf(LastWins(KeyAt, ValAt)), Nil>>
    /\ Done("ToMap") =>
         LET KeyAt(j) == call.arg[src[j]]
             ValAt(j) == src[j]
         IN  call.ret = <<MapOf(LastWins(KeyAt, ValAt))>>

\* f failed after entries had been made, with elements still unread
C21_Witness ==
    /\ Done("Remap")
    /\ call.ret[2] # Nil
    /\ DOMAIN call.m # {}
    /\ call.i < Len(src)

\* ------------------------------------------------------------------ C22
\* the string s[j] matches the pattern p
Matches(p, v) == MatchString(p, Digits(v))

\* C22: FilterStrings(s, p) is the subsequence of the strings of s that
\* match p and RemoveStrings(s, p) the subsequence of those that do not,
\* both in input order and with every repetition, so that together the two
\* results hold every position of s exactly once.
C22_StringsPartition ==
    (call.fn \in StringFuncs /\ call.pc = "done") =>
        LET s == call.items
            p == call.arg
            In(v)  == Matches(p, v)
            Out(v) == ~Matches(p, v)
            kept    == IF call.fn = "FilterStrings" THEN call.ret[1]
                       ELSE FilterStrings(s, p)
            removed == IF call.fn = "RemoveStrings" THEN call.ret[1]
                       ELSE RemoveStrings(s, p)
        IN  /\ kept = SelectSeq(s, In)
            /\ removed = SelectSeq(s, Out)
            /\ Len(kept) + Len(removed) = Len(s)
            /\ \A v \in Vals :
                  Occurrences(kept, v) + Occurrences(removed, v)
                      = Occurrences(s, v)

\* RemoveStrings on a slice with a repeated non-matching string and a
\* matching one
C22_Witness ==
    /\ Done("RemoveStrings")
    /\ \E v \in Vals : /\ Occurrences(call.items, v) >= 2
                        /\ ~Matches(call.arg, v)
    /\ \E v \in Vals : /\ Occurrences(call.items, v) >= 1
                        /\ Matches(call.arg, v)

\* ------------------------------------------------------------------ C23
\* C23: the slice Duplicates returns holds each value that occurs at least
\* twice in the input exactly once and no value that occurs once, and its
\* set of values is the set of values DuplicateSeq yields when it is
\* collected once over the same elements.
C23_DuplicatesSet ==
    Done("Duplicates") =>
        LET s == call.items
            r == call.ret[1]
        IN  /\ NoRepeat(r)
            /\ Range(r) = {v \in Vals : Occurrences(s, v) >= 2}
            /\ Range(r) = Range(Collect([kind |-> "DuplicateSeq",
                                          arg |-> <<>>], s))

\* two values are duplicated and Duplicates returns them in the order
\* opposite to DuplicateSeq
C23_Witness ==
    /\ Done("Duplicates")
    /\ Len(call.ret[1]) = 2
    /\ call.ret[1] # Collect([kind |-> "DuplicateSeq", arg |-> <<>>],
                              call.items)

\* ------------------------------------------------------------------ C24
\* C24: while RemoveSeq is collected it has driven the exclude sequence
\* once for each source element it has consumed; a drive of a restartable
\* exclude sequence runs from its start up to the first element equal to
\* the source element; the result is a sequence and never a failure; and
\* when the exclude sequence produces its elements on its first drive only,
\* the drives for the source elements after the first receive nothing and
\* each of these elements is yielded.
C24_RedriveExclude ==
    call.fn = "RemoveSeq" =>
        LET g == call.arg.g IN
        /\ call.drv = call.i
        /\ Len(call.trace) = call.i
        /\ call.arg.mode = "restart" =>
              /\ \A j \in 1..call.i : call.trace[j] = Received(g, src[j])
              /\ call.items = SelectSeq(SubSeq(src, 1, call.i),
                                        LAMBDA v : ~Found(g, v))
        /\ call.arg.mode = "once" =>
              /\ \A j \in 1..call.i :
                    call.trace[j] = IF j = 1 THEN Received(g, src[1]) ELSE 0
              /\ call.i >= 1 =>
                    call.items = (IF Found(g, src[1]) THEN <<>>
                                  ELSE <<src[1]>>) \o SubSeq(src, 2, call.i)
        /\ call.pc = "done" => call.ret = <<call.items>>

\* an exclude sequence that produces its elements once removed the first
\* source element, and a later source element equal to one of its elements
\* was yielded
C24_Witness ==
    /\ Done("RemoveSeq")
    /\ call.arg.mode = "once"
    /\ Len(src) >= 2
    /\ Found(call.arg.g, src[1])
    /\ \E j \in 2..Len(src) :
          Found(call.arg.g, src[j]) /\ Found(call.items, src[j])

\* ------------------------------------------------------------------ C25
\* C25: after Delete has removed the element at place i of a slice of
\* length n, the slice the caller passed reads: its elements before place
\* i as they were, then its elements behind place i one place to the left,
\* then at place n the element that was there before; after a call without
\* a hit it reads as before.
C25_DeleteInPlace ==
    Done("Delete") =>
        LET in   == call.items
            n    == Len(in)
            hits == {i \in 1..n : in[i] \in Range(call.arg)}
        IN  /\ Len(src) = n
            /\ IF hits = {} THEN src = in /\ call.ret[1] = in
               ELSE LET i == CHOOSE a \in hits : \A b \in hits : a <= b IN
                    /\ \A j \in 1..(i - 1) : src[j] = in[j]
                    /\ \A j \in i..(n - 1) : src[j] = in[j + 1]
                    /\ src[n] = in[n]
                    /\ call.ret[1] = SubSeq(src, 1, n - 1)

\* Delete removed an element in the middle and the caller's slice reads
\* differently from before
C25_Witness ==
    /\ Done("Delete")
    /\ Len(call.ret[1]) = Len(call.items) - 1
    /\ call.items[1] \notin Range(call.arg)
    /\ src # call.items
    /\ Len(src) >= 3
    /\ src[Len(src)] = src[Len(src) - 1]

\* ------------------------------------------------------------------ C26
\* the user function that returns its argument and no error
Identity(S) == [v \in S |-> [val |-> v, err |-> Nil]]

\* C26: the value SumSeq has returned for the elements it was fed is the
\* value SumFuncSeq returns for the same elements in their order of arrival
\* with the identity function, with a nil error, also when a partial sum
\* leaves the range of the type; and what SumFuncSeq has returned with the
\* identity function is what SumSeq gives for the elements it was fed.
C26_SumSeqIsSumFuncIdentity ==
    /\ Done("SumSeq") =>
          SumFuncSeq(Fed, Identity(Range(Fed))) = <<call.ret[1], Nil>>
    /\ (Done("SumFuncSeq") /\ call.arg = Identity(Vals)) =>
          call.ret = <<SumItems(Fed), Nil>>

\* SumSeq summed three or more elements that arrived out of order, and the
\* sum of the first two in arrival order is beyond the largest value of the
\* type
C26_Witness ==
    /\ Done("SumSeq")
    /\ Len(Fed) >= 3
    /\ Fed[1] + Fed[2] > 2^7 - 1
    /\ \E j \in 1..(Len(Fed) - 1) : Fed[j] > Fed[j + 1]

====
